---- MODULE Spec2Model ----
(***************************************************************************)
(* Model of src/full-pipeline.ts: one run of `program`, i.e.              *)
(*   scrapeWithRetry = retryIfRetryable(withSimpleRateLimit(scrapeUrl))    *)
(*                     then parseHtml, then tap / catchAll reporting.      *)
(* The browser engine (puppeteer) and cheerio are the environment: every   *)
(* call to them returns or throws nondeterministically.                    *)
(*                                                                         *)
(* Spec       the program as written (the pipeline).                       *)
(* SpecFair   the pipeline with weak fairness on its steps.                *)
(* SpecRetry  retryIfRetryable applied to an arbitrary operation whose     *)
(*            error type is ScrapingError (the function is generic).       *)
(* SpecScrape scrapeUrl(url, options) called on its own with any options.  *)
(***************************************************************************)
EXTENDS Integers, Sequences, FiniteSets, TLC

VARIABLES
    pc,        \* position of the run in the composed effect
    proxy,     \* TRUE iff buildProxyConfig() is non-null
    tlsFlag,   \* process.env.NODE_TLS_REJECT_UNAUTHORIZED
    attempts,  \* executions of the retried effect started so far
    events,    \* calls made so far: engine calls and sleeps, in order
    acquired,  \* handles whose acquire step succeeded in the current attempt
    err,       \* failure of the current attempt (NoError if none)
    content,   \* html returned by page.content() (NoContent if none)
    result,    \* value scrapeWithRetry succeeded with (NoResult if none)
    failure,   \* error scrapeWithRetry failed with (NoError if none)
    reported,  \* what `program` reported: "none", "result" or "error"
    opLog,     \* SpecRetry: outcomes of the wrapped operation, in order
    env,       \* BRIGHT_DATA_CONFIG: the three credentials from process.env
    raised,    \* value the engine threw last in page.goto / page.content
    options    \* the options argument scrapeUrl is called with

vars == <<pc, proxy, tlsFlag, attempts, events, acquired, err, content,
          result, failure, reported, opLog, env, raised, options>>

-----------------------------------------------------------------------------
(* Bounds of the model *)

\* statuses within this distance of 200, 400, 403 and 429 are drawn
StatusWindow == 1

\* distinct messages an arbitrary operation's failure may carry (SpecRetry)
MaxMsgs == 2

\* timeouts within this distance of 0, the default and the floor are drawn
TimeoutWindow == 1

-----------------------------------------------------------------------------
(* Program constants *)

TARGET_URL == "https://quotes.toscrape.com/js/"

NoUrl == "absent"

RateLimitMs == 100

BaseDelayMs == 1000

ExponentialFactor == 2

Recurs == 3

PipelineTimeout == 30000

DefaultTimeout == 10000

MinNavigationTimeout == 30000

-----------------------------------------------------------------------------
(* Proxy configuration.  A credential is an environment variable: unset,   *)
(* set to the empty string, or set to a value.                             *)

Undefined == "<undefined>"

CredentialValues == {Undefined, "", "v"}

Environments ==
    [customerId : CredentialValues, zone : CredentialValues, password : CredentialValues]

\* JavaScript truthiness of a string | undefined
Truthy(v) == v # Undefined /\ v # ""

isBrightDataConfiguredNoPassword(e) == Truthy(e.customerId) /\ Truthy(e.zone)

isBrightDataConfigured(e) ==
    Truthy(e.customerId) /\ Truthy(e.zone) /\ Truthy(e.password)

\* null
NoProxy == [host |-> "", port |-> 0, username |-> <<>>, password |-> ""]

buildProxyConfig(e) ==
    IF ~isBrightDataConfigured(e)
    THEN NoProxy
    ELSE [host |-> "brd.superproxy.io",
          port |-> 33335,
          username |-> <<"brd-customer-", e.customerId, "-zone-", e.zone>>,
          password |-> e.password]

-----------------------------------------------------------------------------
(* Layer 1: typed errors.  A value is [tag, message, url]; url is NoUrl    *)
(* for the classes that declare no url field.                              *)

NoError == [tag |-> "none", message |-> "", url |-> NoUrl]

NetworkError(message, url) == [tag |-> "NetworkError", message |-> message, url |-> url]

TimeoutErrorNoUrl(message, url) == [tag |-> "TimeoutError", message |-> message, url |-> NoUrl]

TimeoutError(message, url) == [tag |-> "TimeoutError", message |-> message, url |-> url]

RateLimitError(message, url) == [tag |-> "RateLimitError", message |-> message, url |-> url]

IPBlockError(message, url) == [tag |-> "IPBlockError", message |-> message, url |-> url]

BrowserError(message) == [tag |-> "BrowserError", message |-> message, url |-> NoUrl]

ParseError(message) == [tag |-> "ParseError", message |-> message, url |-> NoUrl]

ScrapingErrorTags ==
    {"NetworkError", "TimeoutError", "RateLimitError", "IPBlockError",
     "BrowserError", "ParseError"}

-----------------------------------------------------------------------------
(* Values thrown by the engine.  A message is a sequence of words, so that *)
(* message.includes('timeout') is computed, case-sensitively.              *)

MsgNavTimeout == <<"Navigation", "timeout", "of", "30000", "ms", "exceeded">>

MsgTimedOut == <<"net::ERR_TIMED_OUT", "at", "url">>

MsgRefused == <<"net::ERR_CONNECTION_REFUSED", "at", "url">>

Includes(message, word) == \E i \in DOMAIN message : message[i] = word

\* A thrown value: an engine Error, a non-Error, or one of the typed errors
\* (Data.TaggedError extends Error); value is the typed error, if it is one.
EngineThrow(isError, message) ==
    [tag |-> "Error", isError |-> isError, message |-> message, value |-> NoError]

TypedThrow(error) ==
    [tag |-> error.tag, isError |-> TRUE, message |-> <<error.message>>, value |-> error]

\* nothing was thrown
NoThrow == [tag |-> "none", isError |-> FALSE, message |-> <<>>, value |-> NoError]

\* what page.goto / page.content may throw: Error objects and a non-Error
ThrownValues ==
    {EngineThrow(TRUE, m) : m \in {MsgNavTimeout, MsgTimedOut, MsgRefused}}
    \cup {EngineThrow(FALSE, <<"timeout">>)}

\* response statuses page.goto may return
Statuses ==
    UNION {(c - StatusWindow)..(c + StatusWindow) : c \in {200, 400, 403, 429}}
    \cup {301, 500}

NoStatus == 0

-----------------------------------------------------------------------------
(* HTTP status check of the use step *)

ClassifyStatusLax(status) ==
    IF status = 429 THEN RateLimitError("Rate limited", TARGET_URL)
    ELSE IF status = 403 THEN IPBlockError("IP blocked", TARGET_URL)
    ELSE IF status > 400 THEN NetworkError("HTTP error", TARGET_URL)
    ELSE NoError

ClassifyStatusOnlyBlocks(status) ==
    IF status = 429 THEN RateLimitError("Rate limited", TARGET_URL)
    ELSE IF status = 403 THEN IPBlockError("IP blocked", TARGET_URL)
    ELSE NoError

ClassifyStatus(status) ==
    IF status = 429 THEN RateLimitError("Rate limited", TARGET_URL)
    ELSE IF status = 403 THEN IPBlockError("IP blocked", TARGET_URL)
    ELSE IF status >= 400 THEN NetworkError("HTTP error", TARGET_URL)
    ELSE NoError

\* the catch handler without its timeout branch
CatchNavigateNoTimeoutBranch(thrown) ==
    IF thrown.tag \in {"RateLimitError", "IPBlockError"} THEN thrown.value
    ELSE IF thrown.tag = "NetworkError" THEN thrown.value
    ELSE BrowserError("Failed to navigate or get content")

\* the catch handler of the use step
CatchNavigate(thrown) ==
    IF thrown.tag \in {"RateLimitError", "IPBlockError"} THEN thrown.value
    ELSE IF thrown.tag = "NetworkError" THEN thrown.value
    ELSE IF thrown.isError /\ Includes(thrown.message, "timeout")
    THEN TimeoutError("Navigation timeout", TARGET_URL)
    ELSE BrowserError("Failed to navigate or get content")

-----------------------------------------------------------------------------
(* Scraping logic.  A string is a sequence of characters; an html document *)
(* is the texts of its h1 elements and of its span elements, in order.     *)

IsSpace(c) == c = " "

RECURSIVE TrimStart(_)
TrimStart(s) ==
    IF s = <<>> THEN <<>>
    ELSE IF IsSpace(Head(s)) THEN TrimStart(Tail(s)) ELSE s

RECURSIVE TrimEnd(_)
TrimEnd(s) ==
    IF s = <<>> THEN <<>>
    ELSE IF IsSpace(s[Len(s)]) THEN TrimEnd(SubSeq(s, 1, Len(s) - 1)) ELSE s

Trim(s) == TrimEnd(TrimStart(s))

\* $(sel).text(): the texts of all matched elements, concatenated
RECURSIVE Text(_)
Text(elems) == IF elems = <<>> THEN <<>> ELSE Head(elems) \o Text(Tail(elems))

RECURSIVE NonEmpty(_)
NonEmpty(strs) ==
    IF strs = <<>> THEN <<>>
    ELSE IF Len(Head(strs)) > 0
         THEN <<Head(strs)>> \o NonEmpty(Tail(strs))
         ELSE NonEmpty(Tail(strs))

TrimAll(strs) == [i \in DOMAIN strs |-> Trim(strs[i])]

HtmlQuotes ==
    [h1 |-> << <<" ", "Q", " ">> >>,
     spans |-> << <<"a">>, <<" ">>, <<" ", "b", " ">>, <<>> >>]

HtmlNoHeading == [h1 |-> <<>>, spans |-> << <<"a">> >>]

HtmlTwoHeadings == [h1 |-> << <<"A">>, <<"B", " ">> >>, spans |-> <<>>]

HtmlBlankHeading == [h1 |-> << <<" ">> >>, spans |-> << <<" ", " ">> >>]

Documents == {HtmlQuotes, HtmlNoHeading, HtmlTwoHeadings, HtmlBlankHeading}

NoContent == [h1 |-> <<>>, spans |-> << <<"<none>">> >>]

NoResult == [title |-> <<"<none>">>, spans |-> <<>>, url |-> NoUrl]

\* the try block of parseHtml
ExtractResult(html) ==
    [title |-> Trim(Text(html.h1)),
     spans |-> NonEmpty(TrimAll(html.spans)),
     url |-> TARGET_URL]

-----------------------------------------------------------------------------
(* Layer 3: retry *)

retryableErrors ==
    {"NetworkError", "TimeoutError", "RateLimitError", "IPBlockError", "BrowserError"}

isRetryableError(error) == error.tag \in retryableErrors

RECURSIVE Pow(_, _)
Pow(b, n) == IF n = 0 THEN 1 ELSE b * Pow(b, n - 1)

\* Schedule.exponential(1 second): delay of the (n+1)-th recurrence
ExponentialDelayLinear(n) == BaseDelayMs * (n + 1)

ExponentialDelay(n) == BaseDelayMs * Pow(ExponentialFactor, n)

\* Schedule.recurs(3): continues while fewer than 3 recurrences were made
RecursOffByOne(n) == n <= Recurs

RecursContinues(n) == n < Recurs

\* retryPolicy: the intersection recurs with exponential only while recurs does
retryPolicyContinues(n) == RecursContinues(n)

\* Effect.retry { schedule, until }: the schedule is consulted after a failure
\* and recurs until the predicate holds of the error: the retry goes on iff
\* the schedule continues and the predicate is FALSE.
retryIfRetryable(error, n) == retryPolicyContinues(n) /\ ~isRetryableError(error)

-----------------------------------------------------------------------------
(* One entry of the call log.  arg is the call's parameter (milliseconds   *)
(* of a sleep, the timeout of goto, 1 when launch gets --proxy-server),    *)
(* ret the status goto returned, ok whether the call returned normally.    *)

Ev(op, arg, ok, ret) ==
    [op |-> op, arg |-> arg, ok |-> ok, ret |-> ret, attempt |-> attempts]

Log(op, arg, ok, ret) == events' = Append(events, Ev(op, arg, ok, ret))

Max(a, b) == IF a >= b THEN a ELSE b

\* the options argument of scrapeUrl: absent, or { timeout: t }
NoOptions == [given |-> FALSE, timeout |-> 0]

Options(t) == [given |-> TRUE, timeout |-> t]

\* scrapeUrl: options?.timeout || 10000 (0 is falsy, like undefined)
RequestedTimeout(o) ==
    IF o.given /\ o.timeout # 0 THEN o.timeout ELSE DefaultTimeout

\* a navigation deadline that is the timeout scrapeUrl passes down
NavigationTimeoutAsRequested(timeout) == timeout

\* page.goto's timeout option: Math.max(timeout, 30000)
NavigationTimeout(timeout) == Max(timeout, MinNavigationTimeout)

\* what page.goto may do: throw, resolve to null, or resolve to a response
GotoOutcomes ==
    {[kind |-> "throw", status |-> NoStatus, thrown |-> t] : t \in ThrownValues}
    \cup {[kind |-> "null", status |-> NoStatus, thrown |-> EngineThrow(FALSE, <<>>)]}
    \cup {[kind |-> "response", status |-> st, thrown |-> EngineThrow(FALSE, <<>>)] :
            st \in Statuses}

\* the failure of the try block of the use step after page.goto settled
NavigateFailure(outcome) ==
    IF outcome.kind = "throw" THEN CatchNavigate(outcome.thrown)
    ELSE IF outcome.kind = "response" /\ ClassifyStatus(outcome.status) # NoError
    THEN CatchNavigate(TypedThrow(ClassifyStatus(outcome.status)))
    ELSE NoError

\* Effect.acquireUseRelease: where control goes when the use step of the
\* inner scope ends; the release runs whether the use failed or not
AfterUseNoRelease(failed) == IF failed THEN "closeBrowser" ELSE "closePage"

AfterUseSkipOnSuccess(failed) == IF failed THEN "closePage" ELSE "closeBrowser"

AfterUse(failed) == "closePage"

-----------------------------------------------------------------------------
(* The pipeline *)

Init ==
    /\ pc = "start"
    /\ env \in Environments
    /\ proxy = (buildProxyConfig(env) # NoProxy)
    /\ raised = NoThrow
    /\ options = Options(PipelineTimeout)
    /\ tlsFlag = "unset"
    /\ attempts = 0
    /\ events = <<>>
    /\ acquired = {}
    /\ err = NoError
    /\ content = NoContent
    /\ result = NoResult
    /\ failure = NoError
    /\ reported = "none"
    /\ opLog = <<>>

\* the composition withSimpleRateLimit(retryIfRetryable(scrapeUrl(..))): the
\* delay is slept before the retry driver starts the retried effect
RunProgramRateLimitFirst ==
    /\ pc = "start"
    /\ Log("rateLimitSleep", RateLimitMs, TRUE, NoStatus)
    /\ attempts' = 1
    /\ pc' = "launch"
    /\ UNCHANGED <<proxy, tlsFlag, acquired, err, content, result,
                   failure, reported, opLog, env, options, raised>>

\* Effect.runPromise(program): the retry driver starts the retried effect
RunProgram ==
    /\ pc = "start"
    /\ attempts' = 1
    /\ pc' = "rateLimit"
    /\ UNCHANGED <<proxy, tlsFlag, events, acquired, err, content, result,
                   failure, reported, opLog, env, options, raised>>

\* withSimpleRateLimit: Effect.sleep(100 ms), then the wrapped effect
withSimpleRateLimit ==
    /\ pc = "rateLimit"
    /\ Log("rateLimitSleep", RateLimitMs, TRUE, NoStatus)
    /\ pc' = "launch"
    /\ UNCHANGED <<proxy, tlsFlag, attempts, acquired, err, content, result,
                   failure, reported, opLog, env, options, raised>>

\* launchBrowser: acquire of the outer acquireUseRelease
launchBrowser ==
    /\ pc = "launch"
    /\ \E ok \in BOOLEAN :
        /\ Log("launch", IF proxy THEN 1 ELSE 0, ok, NoStatus)
        /\ tlsFlag' = IF proxy THEN "0" ELSE tlsFlag
        /\ IF ok
           THEN /\ acquired' = acquired \cup {"browser"}
                /\ pc' = "newPage"
                /\ err' = err
           ELSE /\ acquired' = acquired
                /\ pc' = "retry"
                /\ err' = BrowserError(IF proxy
                                       THEN "Failed to launch browser with Bright Data proxy"
                                       ELSE "Failed to launch browser")
    /\ UNCHANGED <<proxy, attempts, content, result, failure, reported, opLog, env, options, raised>>

\* a failure of the inner acquire that escapes the outer release
newPageFailureSkipsRelease ==
    /\ pc = "newPage"
    /\ \E ok \in BOOLEAN :
        /\ Log("newPage", 0, ok, NoStatus)
        /\ IF ok
           THEN /\ pc' = IF proxy THEN "authenticate" ELSE "goto"
                /\ acquired' = IF proxy THEN acquired ELSE acquired \cup {"page"}
                /\ err' = err
           ELSE /\ pc' = "retry"
                /\ acquired' = acquired
                /\ err' = BrowserError("Failed to create page or authenticate")
    /\ UNCHANGED <<proxy, tlsFlag, attempts, content, result, failure, reported,
                   opLog, env, options, raised>>

\* browser.newPage() in the acquire of the inner acquireUseRelease
newPage ==
    /\ pc = "newPage"
    /\ \E ok \in BOOLEAN :
        /\ Log("newPage", 0, ok, NoStatus)
        /\ IF ok
           THEN /\ pc' = IF proxy THEN "authenticate" ELSE "goto"
                /\ acquired' = IF proxy THEN acquired ELSE acquired \cup {"page"}
                /\ err' = err
           ELSE /\ pc' = "closeBrowser"
                /\ acquired' = acquired
                /\ err' = BrowserError("Failed to create page or authenticate")
    /\ UNCHANGED <<proxy, tlsFlag, attempts, content, result, failure, reported, opLog, env, options, raised>>

\* page.authenticate() in the same acquire; when it throws the acquire fails
\* and the inner release is not run
authenticate ==
    /\ pc = "authenticate"
    /\ \E ok \in BOOLEAN :
        /\ Log("authenticate", 0, ok, NoStatus)
        /\ IF ok
           THEN /\ pc' = "goto"
                /\ acquired' = acquired \cup {"page"}
                /\ err' = err
           ELSE /\ pc' = "closeBrowser"
                /\ acquired' = acquired
                /\ err' = BrowserError("Failed to create page or authenticate")
    /\ UNCHANGED <<proxy, tlsFlag, attempts, content, result, failure, reported, opLog, env, options, raised>>

\* use step: page.goto and the status check
goto ==
    /\ pc = "goto"
    /\ \E outcome \in GotoOutcomes :
        /\ Log("goto", NavigationTimeout(RequestedTimeout(options)),
               outcome.kind # "throw", outcome.status)
        /\ err' = NavigateFailure(outcome)
        /\ pc' = IF NavigateFailure(outcome) = NoError THEN "content" ELSE AfterUse(TRUE)
        /\ raised' = IF outcome.kind = "throw" THEN outcome.thrown ELSE raised
    /\ UNCHANGED <<proxy, tlsFlag, attempts, acquired, content, result, failure,
                   reported, opLog, env, options>>

\* use step: page.content()
pageContent ==
    /\ pc = "content"
    /\ \E ok \in BOOLEAN :
        /\ Log("content", 0, ok, NoStatus)
        /\ IF ok
           THEN /\ \E html \in Documents : content' = html
                /\ err' = err
                /\ raised' = raised
           ELSE /\ \E thrown \in ThrownValues :
                      /\ err' = CatchNavigate(thrown)
                      /\ raised' = thrown
                /\ content' = content
        /\ pc' = AfterUse(~ok)
    /\ UNCHANGED <<proxy, tlsFlag, attempts, acquired, result, failure, reported,
                   opLog, env, options>>

\* the inner release without its Effect.catchAll: a close failure of an
\* attempt that had succeeded becomes the attempt's failure
closePagePropagates ==
    /\ pc = "closePage"
    /\ \E ok \in BOOLEAN :
        /\ Log("pageClose", 0, ok, NoStatus)
        /\ err' = IF ~ok /\ err = NoError THEN BrowserError("Failed to close page") ELSE err
    /\ pc' = "closeBrowser"
    /\ UNCHANGED <<proxy, tlsFlag, attempts, acquired, content, result,
                   failure, reported, opLog, env, options, raised>>

\* release of the inner acquireUseRelease: a close failure is ignored
closePage ==
    /\ pc = "closePage"
    /\ \E ok \in BOOLEAN : Log("pageClose", 0, ok, NoStatus)
    /\ pc' = "closeBrowser"
    /\ UNCHANGED <<proxy, tlsFlag, attempts, acquired, err, content, result,
                   failure, reported, opLog, env, options, raised>>

\* an outer release that also removes the certificate flag from process.env
closeBrowserRestoresTls ==
    /\ pc = "closeBrowser"
    /\ \E ok \in BOOLEAN : Log("browserClose", 0, ok, NoStatus)
    /\ acquired' = {}
    /\ tlsFlag' = "unset"
    /\ pc' = IF err = NoError THEN "parse" ELSE "retry"
    /\ UNCHANGED <<proxy, attempts, err, content, result, failure,
                   reported, opLog, env, options, raised>>

\* an outer scope that closes the browser only when the use step succeeded
closeBrowserOnlyOnSuccess ==
    /\ pc = "closeBrowser"
    /\ IF err = NoError
       THEN \E ok \in BOOLEAN : Log("browserClose", 0, ok, NoStatus)
       ELSE events' = events
    /\ acquired' = {}
    /\ pc' = IF err = NoError THEN "parse" ELSE "retry"
    /\ UNCHANGED <<proxy, tlsFlag, attempts, err, content, result, failure,
                   reported, opLog, env, options, raised>>

\* release of the outer acquireUseRelease: a close failure is ignored
closeBrowser ==
    /\ pc = "closeBrowser"
    /\ \E ok \in BOOLEAN : Log("browserClose", 0, ok, NoStatus)
    /\ acquired' = {}
    /\ pc' = IF err = NoError THEN "parse" ELSE "retry"
    /\ UNCHANGED <<proxy, tlsFlag, attempts, err, content, result, failure,
                   reported, opLog, env, options, raised>>

\* a retry driver that wraps the error it gives up with
RetryStepWrapsFailure(restart, stop) ==
    /\ pc = "retry"
    /\ IF retryIfRetryable(err, attempts - 1)
       THEN /\ Log("backoffSleep", ExponentialDelay(attempts - 1), TRUE, NoStatus)
            /\ attempts' = attempts + 1
            /\ err' = NoError
            /\ pc' = restart
            /\ UNCHANGED <<failure, reported>>
       ELSE /\ failure' = [err EXCEPT !.message = "Retries exhausted"]
            /\ pc' = stop
            /\ reported' = IF stop = "done" THEN "error" ELSE reported
            /\ UNCHANGED <<events, attempts, err>>
    /\ UNCHANGED <<proxy, tlsFlag, acquired, content, result, opLog, env, options, raised>>

\* One step of the Effect.retry driver after the retried effect failed:
\* either sleep the schedule's delay and run the effect again from `restart`,
\* or fail with the error.
RetryStep(restart, stop) ==
    /\ pc = "retry"
    /\ IF retryIfRetryable(err, attempts - 1)
       THEN /\ Log("backoffSleep", ExponentialDelay(attempts - 1), TRUE, NoStatus)
            /\ attempts' = attempts + 1
            /\ err' = NoError
            /\ pc' = restart
            /\ UNCHANGED <<failure, reported>>
       ELSE /\ failure' = err
            /\ pc' = stop
            /\ reported' = IF stop = "done" THEN "error" ELSE reported
            /\ UNCHANGED <<events, attempts, err>>
    /\ UNCHANGED <<proxy, tlsFlag, acquired, content, result, opLog, env, options, raised>>

\* scrapeWithRetry: the retried effect is withSimpleRateLimit(scrapeUrl(..))
retryScrape == RetryStep("rateLimit", "report")

\* parseHtml chained before the retry: its failure reaches the retry driver
parseHtmlInsideRetry ==
    /\ pc = "parse"
    /\ \E throws \in BOOLEAN :
        /\ Log("parseHtml", 0, ~throws, NoStatus)
        /\ IF throws
           THEN /\ err' = ParseError("Failed to parse HTML")
                /\ result' = result
                /\ pc' = "retry"
           ELSE /\ result' = ExtractResult(content)
                /\ err' = err
                /\ pc' = "report"
    /\ UNCHANGED <<proxy, tlsFlag, attempts, acquired, failure, content, reported, opLog, env, options, raised>>

\* parseHtml, chained after the retry by Effect.flatMap
parseHtml ==
    /\ pc = "parse"
    /\ \E throws \in BOOLEAN :
        /\ Log("parseHtml", 0, ~throws, NoStatus)
        /\ IF throws
           THEN /\ failure' = ParseError("Failed to parse HTML")
                /\ result' = result
           ELSE /\ result' = ExtractResult(content)
                /\ failure' = failure
    /\ pc' = "report"
    /\ UNCHANGED <<proxy, tlsFlag, attempts, acquired, err, content, reported, opLog, env, options, raised>>

\* program without its Effect.catchAll: a failure is reported nowhere
reportTapOnly ==
    /\ pc = "report"
    /\ IF failure = NoError
       THEN /\ reported' = "result"
            /\ Log("console.log", 0, TRUE, NoStatus)
       ELSE /\ reported' = reported
            /\ events' = events
    /\ pc' = "done"
    /\ UNCHANGED <<proxy, tlsFlag, attempts, acquired, err, content, result,
                   failure, opLog, env, options, raised>>

\* program: Effect.tap logs the result; Effect.catchAll logs the error and
\* calls process.exit(1)
report ==
    /\ pc = "report"
    /\ IF failure = NoError
       THEN /\ reported' = "result"
            /\ Log("console.log", 0, TRUE, NoStatus)
       ELSE /\ reported' = "error"
            /\ Log("process.exit", 1, TRUE, NoStatus)
    /\ pc' = "done"
    /\ UNCHANGED <<proxy, tlsFlag, attempts, acquired, err, content, result,
                   failure, opLog, env, options, raised>>

Next ==
    \/ RunProgram
    \/ withSimpleRateLimit
    \/ launchBrowser
    \/ newPage
    \/ authenticate
    \/ goto
    \/ pageContent
    \/ closePage
    \/ closeBrowser
    \/ retryScrape
    \/ parseHtml
    \/ report

Spec == Init /\ [][Next]_vars

\* the Effect runtime runs every step that is ready, and each engine call
\* is assumed to return or fail
SpecFair == Spec /\ WF_vars(Next)

-----------------------------------------------------------------------------
(* retryIfRetryable applied to an arbitrary operation *)

Msgs == {ToString(i) : i \in 1..MaxMsgs}

Success == [tag |-> "success", message |-> "", url |-> NoUrl]

OperationOutcomes ==
    {Success}
    \cup {[tag |-> t, message |-> m, url |-> NoUrl] : t \in ScrapingErrorTags, m \in Msgs}

InitRetry ==
    /\ pc = "start"
    /\ env = [customerId |-> Undefined, zone |-> Undefined, password |-> Undefined]
    /\ proxy = FALSE
    /\ raised = NoThrow
    /\ options = Options(PipelineTimeout)
    /\ tlsFlag = "unset"
    /\ attempts = 0
    /\ events = <<>>
    /\ acquired = {}
    /\ err = NoError
    /\ content = NoContent
    /\ result = NoResult
    /\ failure = NoError
    /\ reported = "none"
    /\ opLog = <<>>

\* the retry driver starts the operation
RunOperation ==
    /\ pc = "start"
    /\ attempts' = 1
    /\ pc' = "op"
    /\ UNCHANGED <<proxy, tlsFlag, events, acquired, err, content, result,
                   failure, reported, opLog, env, options, raised>>

\* one execution of the wrapped operation: it succeeds or fails
invokeOperation ==
    /\ pc = "op"
    /\ \E outcome \in OperationOutcomes :
        /\ opLog' = Append(opLog, outcome)
        /\ IF outcome = Success
           THEN /\ pc' = "done"
                /\ reported' = "result"
                /\ err' = err
           ELSE /\ pc' = "retry"
                /\ reported' = reported
                /\ err' = outcome
    /\ UNCHANGED <<proxy, tlsFlag, attempts, events, acquired, content, result,
                   failure, env, options, raised>>

retryOperation == RetryStep("op", "done")

NextRetry ==
    \/ RunOperation
    \/ invokeOperation
    \/ retryOperation

SpecRetry == InitRetry /\ [][NextRetry]_vars

-----------------------------------------------------------------------------
(* scrapeUrl(url, options) called on its own, with any options *)

Timeouts ==
    UNION {(c - TimeoutWindow)..(c + TimeoutWindow) :
              c \in {0, DefaultTimeout, MinNavigationTimeout}}
    \cup {2 * MinNavigationTimeout}

OptionValues == {NoOptions} \cup {Options(t) : t \in Timeouts}

InitScrape ==
    /\ pc = "launch"
    /\ env \in Environments
    /\ proxy = (buildProxyConfig(env) # NoProxy)
    /\ options \in OptionValues
    /\ raised = NoThrow
    /\ tlsFlag = "unset"
    /\ attempts = 1
    /\ events = <<>>
    /\ acquired = {}
    /\ err = NoError
    /\ content = NoContent
    /\ result = NoResult
    /\ failure = NoError
    /\ reported = "none"
    /\ opLog = <<>>

NextScrape ==
    \/ launchBrowser
    \/ newPage
    \/ authenticate
    \/ goto
    \/ pageContent
    \/ closePage
    \/ closeBrowser

SpecScrape == InitScrape /\ [][NextScrape]_vars

-----------------------------------------------------------------------------
(* Reading the call log *)

MaxAttempts == Recurs + 1

Calls(op) == {i \in DOMAIN events : events[i].op = op}

CallsIn(op, a) == {i \in Calls(op) : events[i].attempt = a}

Returned(op) == {i \in Calls(op) : events[i].ok}

\* the retried effect is not running: it has ended or has not started
AttemptOver == pc \in {"retry", "parse", "report", "done"}

\* the acquire step of the inner scope succeeded in attempt a
PageAcquiredIn(a) ==
    /\ \E i \in CallsIn("newPage", a) : events[i].ok
    /\ proxy => \E i \in CallsIn("authenticate", a) : events[i].ok

\* the statuses page.goto returned, one per attempt that got a response
EveryAttemptGot(status) ==
    /\ attempts >= 1
    /\ \A a \in 1..attempts :
          \E i \in CallsIn("goto", a) : events[i].ok /\ events[i].ret = status

-----------------------------------------------------------------------------
(* Claims *)

\* C1: a run of the pipeline stops on a retryable failure only when
\* maxAttempts attempts have been made; before that the failure leads to a
\* backoff sleep and another execution of the fetch.
C1_RetryableIsRetried ==
    (pc \in {"report", "done"} /\ isRetryableError(failure)) => attempts = MaxAttempts

\* C2: when every attempt receives status 403 the run makes exactly
\* maxAttempts (4) browser acquire/release cycles and ends with IPBlockError,
\* reporting no result.
C2_AlwaysBlocked ==
    (pc = "done" /\ EveryAttemptGot(403)) =>
        /\ Cardinality(Returned("launch")) = MaxAttempts
        /\ Cardinality(Calls("browserClose")) = MaxAttempts
        /\ failure.tag = "IPBlockError"
        /\ reported = "error"

\* C3: an execution of the wrapped operation that fails with ParseError is
\* the last one: retryIfRetryable never runs the operation again after it.
C3_ParseErrorIsFatal ==
    \A i \in DOMAIN opLog : opLog[i].tag = "ParseError" => i = Len(opLog)

\* C4: once scrapeUrl has ended, browser.close was called as many times as
\* puppeteer.launch returned a browser, and page.close as many times as
\* browser.newPage returned a page.
C4_ReleasesBalanceAcquisitions ==
    AttemptOver =>
        /\ Cardinality(Calls("browserClose")) = Cardinality(Returned("launch"))
        /\ Cardinality(Calls("pageClose")) = Cardinality(Returned("newPage"))

\* C5: in an attempt that acquired a browser and a page, page.close and
\* browser.close are each called at most once, browser.close only after
\* page.close, and both have been called when the attempt is over, whether
\* the navigation step succeeded or failed.
C5_ReleasedOnceInReverseOrder ==
    \A a \in 1..attempts :
        PageAcquiredIn(a) =>
            /\ Cardinality(CallsIn("pageClose", a)) <= 1
            /\ Cardinality(CallsIn("browserClose", a)) <= 1
            /\ \A b \in CallsIn("browserClose", a) :
                  \E p \in CallsIn("pageClose", a) :
                      /\ p < b
                      /\ \A g \in CallsIn("goto", a) \cup CallsIn("content", a) : g < p
            /\ (AttemptOver \/ a < attempts) =>
                  /\ Cardinality(CallsIn("pageClose", a)) = 1
                  /\ Cardinality(CallsIn("browserClose", a)) = 1

\* C5 witness: an attempt whose navigation step failed has ended, after
\* page.close and then browser.close
C5_Witness ==
    /\ AttemptOver
    /\ PageAcquiredIn(1)
    /\ err.tag = "TimeoutError"
    /\ \E p \in CallsIn("pageClose", 1) : \E b \in CallsIn("browserClose", 1) : p < b

\* C6: when page.goto returned a response, the failure of the attempt is
\* RateLimitError for 429, IPBlockError for 403, NetworkError for any other
\* status >= 400, and none of these three for a status < 400.
C6_StatusClassification ==
    \A i \in CallsIn("goto", attempts) :
        (events[i].ok /\ events[i].ret # NoStatus) =>
            LET status == events[i].ret IN
            /\ status = 429 => err.tag = "RateLimitError"
            /\ status = 403 => err.tag = "IPBlockError"
            /\ (status >= 400 /\ status # 429 /\ status # 403) => err.tag = "NetworkError"
            /\ status < 400 =>
                  err.tag \notin {"RateLimitError", "IPBlockError", "NetworkError"}

\* C6 witness: status 400, the least status that is a NetworkError
C6_Witness ==
    /\ \E i \in CallsIn("goto", attempts) : events[i].ok /\ events[i].ret = 400
    /\ err.tag = "NetworkError"

\* C7: the retried effect is executed at most maxAttempts = 4 times (one
\* initial execution and at most 3 retries), whatever failures it produces.
C7_AttemptsBounded ==
    /\ attempts <= MaxAttempts
    /\ Len(opLog) <= MaxAttempts
    /\ Cardinality(Calls("backoffSleep")) <= Recurs

\* C7 witness: the fourth execution has failed and the retry has given up
C7_Witness ==
    /\ pc = "done"
    /\ Len(opLog) = MaxAttempts
    /\ failure # NoError

\* the caller has exactly one outcome: a result or an error
OneOutcome ==
    \/ reported = "result" /\ result # NoResult /\ failure = NoError
    \/ reported = "error" /\ result = NoResult /\ failure # NoError

\* C8: every run of the pipeline ends, and when it has ended the caller has
\* received exactly one outcome, a ScrapingResult or a ScrapingError.
C8_TerminatesWithOneOutcome ==
    /\ <>(pc = "done")
    /\ [](pc = "done" => OneOutcome)
    /\ [](pc # "done" => reported = "none")

\* C8 witness: a run that ended with an error after its fetch failed
C8_Witness ==
    /\ pc = "done"
    /\ reported = "error"
    /\ failure.tag = "TimeoutError"

\* parseHtml ran on fetched content that holds no h1 element
NoHeadingParsed ==
    /\ content # NoContent
    /\ content.h1 = <<>>
    /\ Calls("parseHtml") # {}

\* no fetch step follows a call of parseHtml
NoFetchAfterParse ==
    \A i \in Calls("parseHtml") :
        \A j \in Calls("rateLimitSleep") \cup Calls("launch") \cup Calls("goto") : j < i

\* C9 as stated: fetched content without an h1 element makes the run end
\* with a ParseError, without another fetch attempt.
C9_NoHeadingIsParseError ==
    (pc = "done" /\ NoHeadingParsed) =>
        /\ failure.tag = "ParseError"
        /\ NoFetchAfterParse

\* C9 amended: on fetched content without an h1 element parseHtml succeeds
\* with the empty title unless cheerio itself throws; a ParseError is reported
\* only in that case; either way no further fetch attempt is made.
C9_NoHeadingGivesEmptyTitle ==
    (pc \in {"report", "done"} /\ NoHeadingParsed) =>
        /\ Cardinality(Calls("parseHtml")) = 1
        /\ \A i \in Calls("parseHtml") :
              IF events[i].ok
              THEN /\ failure = NoError
                   /\ result.title = <<>>
                   /\ result.url = TARGET_URL
              ELSE /\ failure.tag = "ParseError"
                   /\ result = NoResult
        /\ NoFetchAfterParse
        /\ attempts = 1

\* C9 witness: a run on content without h1 that reported a result
C9_Witness ==
    /\ pc = "done"
    /\ content = HtmlNoHeading
    /\ reported = "result"
    /\ result.title = <<>>
    /\ attempts < MaxAttempts

BackoffDelays ==
    [k \in 1..Cardinality(Calls("backoffSleep")) |->
        events[CHOOSE i \in Calls("backoffSleep") :
                  Cardinality({j \in Calls("backoffSleep") : j <= i}) = k].arg]

\* C11 as stated: the delay slept before execution n >= 2 is
\* baseDelay * multiplier^(n-1), i.e. 2 s, 4 s, 8 s before executions 2, 3, 4.
C11_DelayIsBaseTimesFactorToNMinus1 ==
    \A k \in DOMAIN BackoffDelays :
        BackoffDelays[k] = BaseDelayMs * Pow(ExponentialFactor, (k + 1) - 1)

\* C11 amended: the delay slept before execution n >= 2 is
\* baseDelay * multiplier^(n-2) (1 s, 2 s, 4 s before executions 2, 3, 4);
\* none is slept before execution 1, there is exactly one between two
\* successive executions, and each is twice the one before.
C11_DelayIsBaseTimesFactorToNMinus2 ==
    /\ \A k \in DOMAIN BackoffDelays :
          /\ BackoffDelays[k] = BaseDelayMs * Pow(ExponentialFactor, (k + 1) - 2)
          /\ k > 1 => BackoffDelays[k] = ExponentialFactor * BackoffDelays[k - 1]
    /\ \A i \in Calls("backoffSleep") :
          \* slept after execution `attempt` failed, before the next one
          /\ events[i].attempt >= 1
          /\ events[i].attempt <= Len(opLog)
          /\ events[i].arg = BaseDelayMs * Pow(ExponentialFactor, events[i].attempt - 1)
    /\ attempts >= 1 => Cardinality(Calls("backoffSleep")) = attempts - 1

\* C11 witness: three delays, 1 s, 2 s and 4 s, were slept before the fourth
\* execution
C11_Witness ==
    /\ Len(opLog) = MaxAttempts
    /\ BackoffDelays = <<1000, 2000, 4000>>

\* C12: when the first attempt gets status 200 and content that parses, the
\* run makes one launch, one newPage, one page.close and one browser.close,
\* sleeps no backoff delay and reports a ScrapingResult.
C12_FirstAttemptSuccess ==
    (/\ pc = "done"
     /\ \E i \in CallsIn("goto", 1) : events[i].ok /\ events[i].ret = 200
     /\ \E i \in CallsIn("content", 1) : events[i].ok
     /\ \E i \in Calls("parseHtml") : events[i].ok) =>
        /\ attempts = 1
        /\ Cardinality(Calls("launch")) = 1
        /\ Cardinality(Calls("newPage")) = 1
        /\ Cardinality(Calls("goto")) = 1
        /\ Cardinality(Calls("pageClose")) = 1
        /\ Cardinality(Calls("browserClose")) = 1
        /\ Calls("backoffSleep") = {}
        /\ reported = "result"
        /\ failure = NoError
        /\ result = ExtractResult(content)
        /\ result.url = TARGET_URL

\* C12 witness: such a run on the page with one heading and four spans
C12_Witness ==
    /\ pc = "done"
    /\ \E i \in CallsIn("goto", 1) : events[i].ok /\ events[i].ret = 200
    /\ content = HtmlQuotes
    /\ reported = "result"
    /\ result.title = <<"Q">>
    /\ result.spans = << <<"a">>, <<"b">> >>

\* C13: after a call of parseHtml no rate-limit sleep, browser launch or
\* other fetch step happens in the run, whether parseHtml succeeded or
\* failed, and parseHtml is called at most once.
C13_NoFetchAfterExtraction ==
    /\ Cardinality(Calls("parseHtml")) <= 1
    /\ \A i \in Calls("parseHtml") :
          /\ pc \in {"report", "done"}
          /\ \A j \in DOMAIN events :
                j > i => events[j].op \in {"console.log", "process.exit"}

\* C13 witness: a run that ended after parseHtml failed
C13_Witness ==
    /\ pc = "done"
    /\ \E i \in Calls("parseHtml") : ~events[i].ok
    /\ failure.tag = "ParseError"
    /\ attempts < MaxAttempts

\* the place of a call in one execution of the retried effect
Rank(op) ==
    CASE op = "rateLimitSleep" -> 0
      [] op = "launch" -> 1
      [] op = "newPage" -> 2
      [] op = "authenticate" -> 3
      [] op = "goto" -> 4
      [] op = "content" -> 5
      [] op = "pageClose" -> 6
      [] op = "browserClose" -> 7
      [] OTHER -> 8

C15_ProxyIffAllCredentials ==
    /\ proxy <=> (/\ env.customerId \notin {Undefined, ""}
                  /\ env.zone \notin {Undefined, ""}
                  /\ env.password \notin {Undefined, ""})
    /\ ~proxy =>
          /\ buildProxyConfig(env) = NoProxy
          /\ \A i \in Calls("launch") : events[i].arg = 0
          /\ Calls("authenticate") = {}
          /\ tlsFlag = "unset"
    /\ proxy =>
          /\ buildProxyConfig(env) =
                [host |-> "brd.superproxy.io",
                 port |-> 33335,
                 username |-> <<"brd-customer-", env.customerId, "-zone-", env.zone>>,
                 password |-> env.password]
          /\ \A i \in Calls("launch") : events[i].arg = 1
          /\ \A i \in Calls("goto") : events[i - 1].op = "authenticate" /\ events[i - 1].ok

\* C15 witness: only the password is missing and the fetch ran directly
C15_Witness ==
    /\ pc = "done"
    /\ env = [customerId |-> "v", zone |-> "v", password |-> Undefined]
    /\ ~proxy
    /\ \E i \in Calls("goto") : events[i - 1].op = "newPage"

\* C16 as stated: every error the pipeline fails with carries the request url.
C16_EveryErrorCarriesUrl ==
    failure # NoError => failure.url = TARGET_URL

\* C16 amended: NetworkError, TimeoutError, RateLimitError and IPBlockError
\* carry the request url; BrowserError and ParseError carry a message (and a
\* cause) but no url.
C16_UrlOnlyOnFourKinds ==
    failure # NoError =>
        /\ failure.tag \in ScrapingErrorTags
        /\ failure.message # ""
        /\ failure.tag \in {"NetworkError", "TimeoutError", "RateLimitError", "IPBlockError"}
              => failure.url = TARGET_URL
        /\ failure.tag \in {"BrowserError", "ParseError"} => failure.url = NoUrl

\* C16 witness: a run reported a TimeoutError that carries the url
C16_Witness ==
    /\ pc = "done"
    /\ reported = "error"
    /\ failure.tag = "TimeoutError"
    /\ failure.url = TARGET_URL

\* the calls of the current attempt that threw, releases excluded
FailedCalls ==
    {i \in DOMAIN events :
        /\ events[i].attempt = attempts
        /\ ~events[i].ok
        /\ events[i].op \in {"launch", "newPage", "authenticate", "goto", "content"}}

C18_StatusCheckedBeforeContent ==
    \A i \in Calls("goto") :
        (events[i].ok /\ events[i].ret >= 400) =>
            /\ CallsIn("content", events[i].attempt) = {}
            /\ content = NoContent
            /\ events[i].attempt = attempts => err # NoError
            /\ result = NoResult

\* C18 witness: a run that got status 500 ended without reading the content
C18_Witness ==
    /\ pc = "done"
    /\ \E i \in Calls("goto") : events[i].ok /\ events[i].ret = 500
    /\ Calls("content") = {}
    /\ failure.tag = "NetworkError"

\* a step taken in a release leaves the attempt's outcome as it was
ReleaseKeepsOutcome ==
    pc \in {"closePage", "closeBrowser"} =>
        /\ err' = err
        /\ content' = content
        /\ failure' = failure
        /\ pc = "closeBrowser" => pc' = (IF err = NoError THEN "parse" ELSE "retry")

\* C19: the release steps change neither the failure nor the content of the
\* attempt, whether page.close / browser.close return or throw, and after
\* browser.close the attempt continues as its use step decided; no error of
\* a close is ever the failure of the run.
C19_ReleaseFailureDiscarded ==
    /\ [][ReleaseKeepsOutcome]_vars
    /\ [](failure.message \notin {"Failed to close page", "Failed to close browser"})

\* C19 witness: both closes threw and the run still reported its result
C19_Witness ==
    /\ pc = "done"
    /\ reported = "result"
    /\ \E i \in Calls("pageClose") : ~events[i].ok
    /\ \E i \in Calls("browserClose") : ~events[i].ok

\* C20: the error retryIfRetryable fails with is the failure of the last
\* execution of the operation, with the same tag, message and url and no
\* other field.
C20_LastFailureUnchanged ==
    (pc = "done" /\ failure # NoError) =>
        /\ opLog # <<>>
        /\ failure = opLog[Len(opLog)]
        /\ DOMAIN failure = {"tag", "message", "url"}

\* C20 witness: the retry gave up on an error that differs from the first
\* execution's
C20_Witness ==
    /\ pc = "done"
    /\ Len(opLog) >= 2
    /\ failure = opLog[Len(opLog)]
    /\ failure # opLog[1]
\* C21: for every requested timeout t, with or without a proxy, the timeout
\* passed to page.goto is max(t, 30000): never below 30000, and t itself
\* whenever t >= 30000.
C21_NavigationDeadlineIsMax ==
    options.given =>
        \A i \in Calls("goto") :
            /\ events[i].arg = IF options.timeout >= 30000 THEN options.timeout ELSE 30000
            /\ events[i].arg >= 30000
            /\ options.timeout >= 30000 => events[i].arg = options.timeout

\* C21 witness: through the proxy, scrapeUrl was asked for a timeout of 0,
\* which it replaces by its default, and page.goto got the floor
C21_Witness ==
    /\ options = Options(0)
    /\ proxy
    /\ \E i \in Calls("goto") : events[i].arg = 30000
\* browsers puppeteer.launch returned on which browser.close was not called
OpenBrowsers ==
    {i \in Returned("launch") : ~\E j \in Calls("browserClose") : j > i}

\* pages browser.newPage returned on which neither page.close nor the close
\* of their browser was called
OpenPages ==
    {i \in Returned("newPage") :
        ~\E j \in Calls("pageClose") \cup Calls("browserClose") : j > i}

\* C22: at every moment of a run at most one browser and at most one page
\* are open; when an attempt is over (the retry driver decides, sleeps the
\* backoff and starts the next attempt) browser.close has been called on the
\* attempt's browser and has completed, so every backoff sleep and every
\* launch comes after the close of each browser launched before it.
C22_AtMostOneBrowserAndPage ==
    /\ Cardinality(OpenBrowsers) <= 1
    /\ Cardinality(OpenPages) <= 1
    /\ (AttemptOver \/ pc \in {"start", "rateLimit", "launch"}) =>
          OpenBrowsers = {} /\ OpenPages = {}
    /\ \A i \in Calls("backoffSleep") \cup Calls("launch") :
          \A j \in Returned("launch") :
              j < i => \E k \in Calls("browserClose") : j < k /\ k < i

\* C22 witness: the attempt failed in page.goto with a browser and a page
\* open, and the retry driver is consulted with both closed
C22_Witness ==
    /\ pc = "retry"
    /\ Returned("launch") # {}
    /\ Returned("newPage") # {}
    /\ \E i \in Calls("goto") : ~events[i].ok
    /\ OpenBrowsers = {}
    /\ OpenPages = {}
\* the step is a call of puppeteer.launch
LaunchStep ==
    /\ Len(events') = Len(events) + 1
    /\ events'[Len(events')].op = "launch"

\* what one step does to NODE_TLS_REJECT_UNAUTHORIZED
TlsFrame ==
    IF proxy /\ LaunchStep THEN tlsFlag' = "0" ELSE tlsFlag' = tlsFlag

\* C23: without a proxy no step of a run changes NODE_TLS_REJECT_UNAUTHORIZED;
\* with a proxy the step that launches the browser sets it to '0', whether
\* the launch succeeds or fails, and no other step (page release, browser
\* release, retry, extraction, report) changes it, so it is '0' from the
\* first launch to the end of the run.
C23_TlsFlagSetNeverRestored ==
    /\ [][TlsFrame]_vars
    /\ [](~proxy => tlsFlag = "unset")
    /\ []((proxy /\ Calls("launch") # {}) => tlsFlag = "0")

\* C23 witness: a run through the proxy has ended with its result reported
\* and the flag is still '0'
C23_Witness ==
    /\ proxy
    /\ pc = "done"
    /\ reported = "result"
    /\ Returned("browserClose") # {}
    /\ tlsFlag = "0"

====
